---- MODULE Spec2Model ----
(***************************************************************************)
(* Elo rating engine (teo8192/elo): the Player record and its order, the   *)
(* HashMap-backed EloStorage, the lock-guarded InMemoryStorage, and the    *)
(* synchronous engine Elo::add_player / try_add / add_game of src/lib.rs.  *)
(*                                                                         *)
(* A store is the set of Player records it holds; the key of a record is   *)
(* its name, because every insert of the storage traits uses player.name   *)
(* as the key.  Names are strings, modelled as sequences of byte values so *)
(* that String::cmp is the lexicographic comparison the code performs.     *)
(***************************************************************************)
EXTENDS Integers, Sequences, FiniteSets, TLC

VARIABLES
  players,   \* Elo.players : HashMap<String, Player>, as a set of records
  last,      \* the last call made on the engine or store, with its result
             \* and the locals of add_game (w, l, rounded new ratings)
  played,    \* per name: number of add_game calls that returned Ok
  nops,      \* number of calls made so far
  limit,     \* number of calls the behaviour may make
  mem,       \* InMemoryStorage.players : RwLock<HashMap<String, Player>>
  cmp,       \* three players and the results of comparing them
  test,      \* tests::ordering: its position, its inputs and its Vec
  procs,     \* per task: the AsyncElo call it runs, its position and locals
  lock       \* the RwLock of InMemoryStorage: its writer and its readers

vars == <<players, last, played, nops, limit, mem, cmp, test, procs, lock>>

----------------------------------------------------------------------------
(* Bounds of the model *)

MaxOps == 2          \* calls per behaviour over a pre-seeded store
MaxGames == 3        \* add_game calls per behaviour from the empty store
MaxStoreOps == 3     \* storage calls per behaviour
MaxSeqCalls == 3     \* calls per behaviour made on both engines in turn
MaxCalls == 2        \* AsyncElo calls per behaviour, over all tasks
MaxCmpGames == 2     \* largest number_of_games of a compared player
LowRating == 10      \* a pre-seeded rating below K/2

(* Program constants *)

StartingElo == 1000  \* Elo::new: starting_elo
ForcedRating == 985  \* the rating tests::ordering writes into b and d
ForcedGames == 2     \* the number_of_games tests::ordering writes into d
K == 32              \* the K-factor literal 32.0 of add_game

NameA == <<97>>
NameB == <<98>>
NameC == <<99>>
NameD == <<100>>
NameAB == <<97, 98>>
Names == {NameA, NameB, NameC}
NoName == <<>>

----------------------------------------------------------------------------
(* Player *)

Player(name, rating, number_of_games) ==
  [name |-> name, rating |-> rating, number_of_games |-> number_of_games]

NoPlayer == Player(NoName, 0, 0)

----------------------------------------------------------------------------
(* impl PartialOrd / Ord for Player *)

\* usize::cmp
CmpUsize(a, b) == IF a < b THEN "Less" ELSE IF a > b THEN "Greater" ELSE "Equal"

\* Ordering::reverse
Reverse(ord) ==
  IF ord = "Less" THEN "Greater" ELSE IF ord = "Greater" THEN "Less" ELSE "Equal"

\* String::cmp: byte-wise lexicographic, a proper prefix is Less
RECURSIVE CmpStr(_, _)
CmpStr(s, t) ==
  IF s = <<>> THEN (IF t = <<>> THEN "Equal" ELSE "Less")
  ELSE IF t = <<>> THEN "Greater"
  ELSE IF Head(s) < Head(t) THEN "Less"
  ELSE IF Head(s) > Head(t) THEN "Greater"
  ELSE CmpStr(Tail(s), Tail(t))

\* partial_cmp with the two equal-key cases collapsed to Equal
PartialCmpNoName(self, other) ==
  LET byRating == Reverse(CmpUsize(self.rating, other.rating))
  IN  IF byRating = "Equal"
      THEN Reverse(CmpUsize(self.number_of_games, other.number_of_games))
      ELSE byRating

\* partial_cmp without the reverse() on number_of_games
PartialCmpGamesAsc(self, other) ==
  LET byRating == Reverse(CmpUsize(self.rating, other.rating))
      byGames  == CmpUsize(self.number_of_games, other.number_of_games)
  IN  IF byRating = "Equal"
      THEN (IF byGames = "Equal" THEN CmpStr(self.name, other.name)
            ELSE byGames)
      ELSE byRating

PartialCmp(self, other) ==
  LET byRating == Reverse(CmpUsize(self.rating, other.rating))
      byGames  == Reverse(CmpUsize(self.number_of_games, other.number_of_games))
  IN  IF byRating = "Equal"
      THEN (IF byGames = "Equal" THEN CmpStr(self.name, other.name)
            ELSE byGames)
      ELSE byRating

\* Ord::cmp: partial_cmp(other).unwrap()
Cmp(self, other) == PartialCmp(self, other)

\* <[_]>::sort on a Vec<&Player>: a stable sort by Cmp
RECURSIVE InsertSorted(_, _)
InsertSorted(v, p) ==
  IF v = <<>> THEN <<p>>
  ELSE IF Cmp(p, Head(v)) = "Less" THEN <<p>> \o v
  ELSE <<Head(v)>> \o InsertSorted(Tail(v), p)

RECURSIVE SortFrom(_, _)
SortFrom(acc, v) ==
  IF v = <<>> THEN acc ELSE SortFrom(InsertSorted(acc, Head(v)), Tail(v))

Sort(v) == SortFrom(<<>>, v)

----------------------------------------------------------------------------
(* impl EloStorage for HashMap<String, Player> *)

\* an insert that keeps the entry already stored under the key
InsertIfAbsent(store, player) ==
  IF \E q \in store : q.name = player.name THEN store
  ELSE store \cup {player}

\* an insert into a map rebuilt from the one record
InsertReplacingAll(store, player) == {player}

\* HashMap::insert(key, value): the entry under key is replaced.
Insert(store, player) ==
  {q \in store : q.name # player.name} \cup {player}

StoreAddPlayer(store, player) == Insert(store, player)

StoreUpdatePlayer(store, player) == Insert(store, player)

\* Option<&Player>: the empty set is None, a singleton is Some.
Get(store, name) == {q \in store : q.name = name}

IsNone(opt) == opt = {}

Unwrap(opt) == CHOOSE q \in opt : TRUE

\* impl AsyncEloStorage for InMemoryStorage: the map operation made under
\* players.write().unwrap() by add_player and update_player
MemInsert(store, player) == Insert(store, player)

\* <InMemoryStorage as AsyncEloStorage>::get, under players.read().unwrap()
MemGet(store, name) == Get(store, name)

----------------------------------------------------------------------------
(* The rating computation of add_game *)

\* Threshold[k] is the largest integer x with
\*   32.0 * (1.0 / (1.0 + 10.0.powf(x / 400.0))) >= k - 0.5,
\* that is floor(400 * log10((65 - 2k) / (2k - 1))); no integer x makes the
\* product an exact half, so rounding never meets a tie.
Threshold ==
  << 719, 523, 428, 364, 314, 273, 237, 205, 176, 149, 124, 100, 77, 54, 32,
     10, -11, -33, -55, -78, -101, -125, -150, -177, -206, -238, -274, -315,
     -365, -429, -524, -720 >>

\* round(32.0 * expected), expected = 1/(1 + 10^(diff/400)), diff being the
\* opponent's rating minus the player's own.
RoundKExpected(diff) == Cardinality({k \in 1..K : diff <= Threshold[k]})

\* the winner's expectation taken from the loser's side of the difference
WinnerNewSwapped(w, l, is_draw) ==
  w.rating + (IF is_draw THEN K \div 2 ELSE K)
           - RoundKExpected(w.rating - l.rating)

\* the first player scored as a winner even in a draw
WinnerNewNoDraw(w, l, is_draw) ==
  w.rating + K - RoundKExpected(l.rating - w.rating)

\* (w.rating + 32.0 * (1.0 - factor - winner_expected)).round()
WinnerNewRounded(w, l, is_draw) ==
  w.rating + (IF is_draw THEN K \div 2 ELSE K)
           - RoundKExpected(l.rating - w.rating)

\* the second player scored as a loser even in a draw
LoserNewNoDraw(w, l, is_draw) ==
  l.rating - RoundKExpected(w.rating - l.rating)

\* (l.rating + 32.0 * (factor - loser_expected)).round()
LoserNewRounded(w, l, is_draw) ==
  l.rating + (IF is_draw THEN K \div 2 ELSE 0)
           - RoundKExpected(w.rating - l.rating)

\* `f64 as usize`: the cast saturates, a negative value becomes 0.
AsUsize(v) == IF v < 0 THEN 0 ELSE v

----------------------------------------------------------------------------
(* Elo over the HashMap store *)

EloAddPlayer(store, name) ==
  StoreAddPlayer(store, Player(name, StartingElo, 0))

\* try_add without the lookup: add_player whatever the store holds
TryAddAlways(store, name) == EloAddPlayer(store, name)

TryAdd(store, name) ==
  IF IsNone(Get(store, name)) THEN EloAddPlayer(store, name) ELSE store

\* update_rating without the increment of number_of_games
UpdateRatingNoCount(store, name, new_rating) ==
  LET p == Unwrap(Get(store, name))
  IN  (store \ {p}) \cup
        {Player(p.name, AsUsize(new_rating), p.number_of_games)}

\* the closure update_rating of add_game: get_mut(player).unwrap(), then
\* the two field writes in place.
UpdateRating(store, name, new_rating) ==
  LET p == Unwrap(Get(store, name))
  IN  (store \ {p}) \cup
        {Player(p.name, AsUsize(new_rating), p.number_of_games + 1)}

\* add_game without the self-play check
SelfPlayNever(player1, player2) == FALSE

SelfPlay(player1, player2) == player1 = player2

\* The store add_game leaves behind (for player1 # player2).
AddGameStore(store, player1, player2, is_draw) ==
  LET s2 == TryAdd(TryAdd(store, player1), player2)
      w  == Unwrap(Get(s2, player1))
      l  == Unwrap(Get(s2, player2))
  IN  UpdateRating(
        UpdateRating(s2, player1, WinnerNewRounded(w, l, is_draw)),
        player2, LoserNewRounded(w, l, is_draw))

\* A call and what it did: its arguments, its result, and for add_game
\* whether try_add found each name absent (new1, new2), the records w and l
\* it read, and the two rounded new ratings before the cast to usize.
Call(op, p1, p2, is_draw, res, new1, new2, w, l, wn, ln) ==
  [op |-> op, p1 |-> p1, p2 |-> p2, is_draw |-> is_draw, res |-> res,
   new1 |-> new1, new2 |-> new2, w |-> w, l |-> l, wn |-> wn, ln |-> ln]

Plain(op, p1) ==
  Call(op, p1, NoName, FALSE, "Ok", FALSE, FALSE, NoPlayer, NoPlayer, 0, 0)

NoCall == Plain("none", NoName)

\* a storage call: the record passed, and whether its name was absent
StoreCall(op, player, store) ==
  [Plain(op, player.name) EXCEPT !.w = player,
                                 !.new1 = IsNone(Get(store, player.name))]

\* Elo::add_game on the store `players`; the two lookups self[player1] and
\* self[player2] unwrap, and panic on None.
SyncAddGame(player1, player2, is_draw) ==
  /\ nops < limit
  /\ nops' = nops + 1
  /\ IF SelfPlay(player1, player2)
     THEN /\ players' = players
          /\ played' = played
          /\ last' = Call("add_game", player1, player2, is_draw, "Err",
                          FALSE, FALSE, NoPlayer, NoPlayer, 0, 0)
     ELSE LET s2 == TryAdd(TryAdd(players, player1), player2)
              w  == Unwrap(Get(s2, player1))
              l  == Unwrap(Get(s2, player2))
          IN  IF IsNone(Get(s2, player1)) \/ IsNone(Get(s2, player2))
              THEN /\ players' = s2
                   /\ played' = played
                   /\ last' = Call("add_game", player1, player2, is_draw,
                                   "Panic", FALSE, FALSE,
                                   NoPlayer, NoPlayer, 0, 0)
              ELSE /\ players' = AddGameStore(players, player1, player2,
                                              is_draw)
                   /\ played' = [played EXCEPT ![player1] = @ + 1,
                                               ![player2] = @ + 1]
                   /\ last' = Call("add_game", player1, player2, is_draw,
                                   "Ok",
                                   IsNone(Get(players, player1)),
                                   IsNone(Get(TryAdd(players, player1),
                                              player2)),
                                   w, l, WinnerNewRounded(w, l, is_draw),
                                   LoserNewRounded(w, l, is_draw))

\* Elo::add_player on the store `players`
SyncAddPlayer(name) ==
  /\ nops < limit
  /\ nops' = nops + 1
  /\ players' = EloAddPlayer(players, name)
  /\ played' = played
  /\ last' = Plain("add_player", name)

\* Elo::try_add on the store `players`
SyncTryAdd(name) ==
  /\ nops < limit
  /\ nops' = nops + 1
  /\ players' = TryAdd(players, name)
  /\ played' = played
  /\ last' = Plain("try_add", name)

SyncFrame == UNCHANGED <<limit, mem, cmp, test, procs, lock>>

AddGame(player1, player2, is_draw) ==
  SyncAddGame(player1, player2, is_draw) /\ SyncFrame

AddPlayer(name) == SyncAddPlayer(name) /\ SyncFrame

TryAddCall(name) == SyncTryAdd(name) /\ SyncFrame

----------------------------------------------------------------------------
(* AsyncElo over InMemoryStorage *)

TaskIds == {"t1", "t2"}

\* A task: the call it runs (op, p1, p2, is_draw), the store call it is at
\* (pc), whether it is inside that store call holding the lock (held), the
\* copies player1 and player2 of add_game, and the result of its last call.
Task(op, pc, held, p1, p2, is_draw, player1, player2, res) ==
  [op |-> op, pc |-> pc, held |-> held, p1 |-> p1, p2 |-> p2,
   is_draw |-> is_draw, player1 |-> player1, player2 |-> player2, res |-> res]

IdleTask == Task("none", "idle", FALSE, NoName, NoName, FALSE,
                 NoPlayer, NoPlayer, "None")

NoProcs == [t \in TaskIds |-> IdleTask]

Unlocked == [writer |-> "none", readers |-> {}]

\* crate::update_rating(&player1, &player2, is_draw) -> (usize, usize)
UpdateRatingFn(player1, player2, is_draw) ==
  << AsUsize(WinnerNewRounded(player1, player2, is_draw)),
     AsUsize(LoserNewRounded(player1, player2, is_draw)) >>

\* the store calls that take the read lock
IsRead(pc) == pc \in {"t1get", "t2get", "get1", "get2"}

\* where the first try_add returns to: add_game goes on to its second
\* try_add, a try_add or add_player call returns
AfterTry1(op) == IF op = "add_game" THEN "t2get" ELSE "idle"

\* leave the store call: drop the guard and move on; "idle" is the return
\* of the call, "panic" a failed unwrap
Goto(t, pc) ==
  [t EXCEPT !.pc = pc, !.held = FALSE,
            !.res = IF pc = "idle" THEN "Ok"
                    ELSE IF pc = "panic" THEN "Panic" ELSE @]

Stepped(store, t) == [store |-> store, task |-> t]

\* try_add without the lookup: every name is taken to be absent
TryGetAbsent(store, t, name, absent, present) == Stepped(store, Goto(t, absent))

\* try_add: self.players.get(name).await.is_none()
TryGet(store, t, name, absent, present) ==
  Stepped(store, Goto(t, IF IsNone(MemGet(store, name)) THEN absent
                         ELSE present))

\* an add_player that never reaches the store
TryInsertNothing(store, t, name, next) == Stepped(store, Goto(t, next))

\* AsyncElo::add_player: players.add_player(Player {name, 1000, 0}).await
TryInsert(store, t, name, next) ==
  Stepped(MemInsert(store, Player(name, StartingElo, 0)), Goto(t, next))

\* let mut player1 = self.get_player(player1).await.unwrap()
GetPlayer1(store, t) ==
  IF IsNone(MemGet(store, t.p1)) THEN Stepped(store, Goto(t, "panic"))
  ELSE Stepped(store,
               Goto([t EXCEPT !.player1 = Unwrap(MemGet(store, t.p1))],
                    "get2"))

\* let mut player2 = self.get_player(player2).await.unwrap(), then
\* update_rating and the four field writes on the two copies
GetPlayer2(store, t) ==
  IF IsNone(MemGet(store, t.p2)) THEN Stepped(store, Goto(t, "panic"))
  ELSE LET player2 == Unwrap(MemGet(store, t.p2))
           r == UpdateRatingFn(t.player1, player2, t.is_draw)
       IN  Stepped(store,
             Goto([t EXCEPT
                     !.player1 = Player(@.name, r[1], @.number_of_games + 1),
                     !.player2 = Player(player2.name, r[2],
                                        player2.number_of_games + 1)],
                  "upd1"))

\* self.players.update_player(&player1).await
UpdatePlayer1(store, t) ==
  Stepped(MemInsert(store, t.player1), Goto(t, "upd2"))

\* the second write repeating the first: update_player(&player1) twice
UpdatePlayer2Again(store, t) ==
  Stepped(MemInsert(store, t.player1), Goto(t, "idle"))

\* self.players.update_player(&player2).await; Ok(())
UpdatePlayer2(store, t) ==
  Stepped(MemInsert(store, t.player2), Goto(t, "idle"))

\* the store call task t is at, run on the store
AsyncStep(store, t) ==
  CASE t.pc = "t1get" -> TryGet(store, t, t.p1, "t1add", AfterTry1(t.op))
    [] t.pc = "t1add" -> TryInsert(store, t, t.p1, AfterTry1(t.op))
    [] t.pc = "t2get" -> TryGet(store, t, t.p2, "t2add", "get1")
    [] t.pc = "t2add" -> TryInsert(store, t, t.p2, "get1")
    [] t.pc = "get1"  -> GetPlayer1(store, t)
    [] t.pc = "get2"  -> GetPlayer2(store, t)
    [] t.pc = "upd1"  -> UpdatePlayer1(store, t)
    [] t.pc = "upd2"  -> UpdatePlayer2(store, t)

\* a guard kept alive after the store call has returned
ReleaseNever(lk, id) == lk

\* the RwLockReadGuard / RwLockWriteGuard of task id is dropped
Release(lk, id) ==
  [writer |-> IF lk.writer = id THEN "none" ELSE lk.writer,
   readers |-> lk.readers \ {id}]

\* the task as a call starts: add_game returns Err at once on self-play
Started(op, p1, p2, is_draw) ==
  IF op = "add_game" /\ SelfPlay(p1, p2)
  THEN Task(op, "idle", FALSE, p1, p2, is_draw, NoPlayer, NoPlayer, "Err")
  ELSE Task(op, IF op = "add_player" THEN "t1add" ELSE "t1get", FALSE,
            p1, p2, is_draw, NoPlayer, NoPlayer, "Pending")

Running(t) == t.pc \notin {"idle", "panic"}

AsyncFrame == UNCHANGED <<players, last, limit, cmp, test>>

\* a task calls elo.add_game(player1, player2, is_draw)
StartGame(id, player1, player2, is_draw) ==
  /\ procs[id].pc = "idle"
  /\ nops < limit
  /\ nops' = nops + 1
  /\ procs' = [procs EXCEPT ![id] = Started("add_game", player1, player2,
                                             is_draw)]
  /\ UNCHANGED <<mem, lock, played>>
  /\ AsyncFrame

\* players.read().unwrap() / players.write().unwrap(): the task blocks
\* until the RwLock admits it
Acquire(id) ==
  /\ Running(procs[id])
  /\ ~procs[id].held
  /\ lock.writer = "none"
  /\ IsRead(procs[id].pc) \/ lock.readers = {}
  /\ lock' = IF IsRead(procs[id].pc)
             THEN [lock EXCEPT !.readers = @ \cup {id}]
             ELSE [lock EXCEPT !.writer = id]
  /\ procs' = [procs EXCEPT ![id].held = TRUE]
  /\ UNCHANGED <<mem, nops, played>>
  /\ AsyncFrame

\* the map operation under the guard; the guard is a temporary of the
\* statement and is dropped as the store call returns
Perform(id) ==
  /\ procs[id].held
  /\ LET r == AsyncStep(mem, procs[id])
     IN  /\ mem' = r.store
         /\ procs' = [procs EXCEPT ![id] = r.task]
         /\ played' = IF procs[id].pc = "upd2"
                       THEN [played EXCEPT ![procs[id].p1] = @ + 1,
                                           ![procs[id].p2] = @ + 1]
                       ELSE played
  /\ lock' = Release(lock, id)
  /\ nops' = nops
  /\ AsyncFrame

----------------------------------------------------------------------------
(* Elo of src/elo.rs and AsyncElo, given the same calls one after another *)

\* the closure update_rating of elo.rs: get_mut(player).unwrap(), then
\* p.rating = new_rating; p.number_of_games += 1
EloUpdateRating(store, name, new_rating) ==
  LET p == Unwrap(Get(store, name))
  IN  (store \ {p}) \cup {Player(p.name, new_rating, p.number_of_games + 1)}

Returned(store, res) == [store |-> store, res |-> res]

\* Elo::add_game of elo.rs; add_player and try_add of elo.rs read as those
\* of lib.rs do
EloAddGame(store, player1, player2, is_draw) ==
  IF SelfPlay(player1, player2) THEN Returned(store, "Err")
  ELSE LET s2 == TryAdd(TryAdd(store, player1), player2)
       IN  IF IsNone(Get(s2, player1)) \/ IsNone(Get(s2, player2))
           THEN Returned(s2, "Panic")
           ELSE LET r == UpdateRatingFn(Unwrap(Get(s2, player1)),
                                        Unwrap(Get(s2, player2)), is_draw)
                IN  Returned(EloUpdateRating(
                               EloUpdateRating(s2, player1, r[1]),
                               player2, r[2]),
                             "Ok")

\* an AsyncElo call awaited to its return, no other task running
RECURSIVE Awaited(_, _)
Awaited(store, t) ==
  IF Running(t)
  THEN LET r == AsyncStep(store, t) IN Awaited(r.store, r.task)
  ELSE Stepped(store, t)

\* the same call made on both engines: `players` is the HashMap of Elo,
\* `mem` the map of InMemoryStorage, task t1 the one caller of AsyncElo
Both(op, p1, p2, is_draw, sync) ==
  /\ nops < limit
  /\ nops' = nops + 1
  /\ players' = sync.store
  /\ last' = [Plain(op, p1) EXCEPT !.p2 = p2, !.is_draw = is_draw,
                                   !.res = sync.res]
  /\ LET a == Awaited(mem, Started(op, p1, p2, is_draw))
     IN  /\ mem' = a.store
         /\ procs' = [procs EXCEPT !["t1"] = a.task]
  /\ UNCHANGED <<played, limit, cmp, test, lock>>

SeqAddPlayer(name) ==
  Both("add_player", name, NoName, FALSE,
       Returned(EloAddPlayer(players, name), "Ok"))

SeqTryAdd(name) ==
  Both("try_add", name, NoName, FALSE, Returned(TryAdd(players, name), "Ok"))

SeqAddGame(player1, player2, is_draw) ==
  Both("add_game", player1, player2, is_draw,
       EloAddGame(players, player1, player2, is_draw))

----------------------------------------------------------------------------
(* Comparing players *)

CmpNames == {NameA, NameB, NameAB}

CmpPlayers ==
  {Player(n, r, g) : n \in CmpNames, r \in {ForcedRating, StartingElo},
                     g \in 0..MaxCmpGames}

Compared(x, y, z, done, xy, yx, yz, xz) ==
  [x |-> x, y |-> y, z |-> z, done |-> done,
   xy |-> xy, yx |-> yx, yz |-> yz, xz |-> xz]

NoCmp ==
  Compared(NoPlayer, NoPlayer, NoPlayer, FALSE,
           "Equal", "Equal", "Equal", "Equal")

Compare ==
  /\ ~cmp.done
  /\ cmp' = Compared(cmp.x, cmp.y, cmp.z, TRUE,
                     Cmp(cmp.x, cmp.y), Cmp(cmp.y, cmp.x),
                     Cmp(cmp.y, cmp.z), Cmp(cmp.x, cmp.z))
  /\ UNCHANGED <<players, last, played, nops, limit, mem, test, procs, lock>>

----------------------------------------------------------------------------
(* tests::ordering *)

\* IndexMut: elo[name].rating = rating
IndexMutRating(store, name, rating) ==
  LET p == Unwrap(Get(store, name))
  IN  (store \ {p}) \cup {Player(p.name, rating, p.number_of_games)}

\* IndexMut: elo[name].number_of_games = number_of_games
IndexMutGames(store, name, number_of_games) ==
  LET p == Unwrap(Get(store, name))
  IN  (store \ {p}) \cup {Player(p.name, p.rating, number_of_games)}

\* HashMapIter: every record once, in an order the map chooses
IterOrders(store) ==
  {v \in [1..Cardinality(store) -> store] :
     \A i, j \in 1..Cardinality(store) : i # j => v[i] # v[j]}

Test(pc, draws, forced, vec) ==
  [pc |-> pc, draws |-> draws, forced |-> forced, vec |-> vec]

NoTest == Test(0, <<>>, <<>>, <<>>)

TestPlayers == <<NameA, NameB, NameC, NameD>>

TestGames == <<<<NameA, NameB>>, <<NameA, NameC>>>>

TestFrame == UNCHANGED <<last, played, nops, limit, mem, cmp, procs, lock>>

\* elo.add_player("a") .. elo.add_player("d")
TestAddPlayer ==
  /\ test.pc < Len(TestPlayers)
  /\ players' = EloAddPlayer(players, TestPlayers[test.pc + 1])
  /\ test' = [test EXCEPT !.pc = @ + 1]
  /\ TestFrame

\* elo.add_game("a", "b", _) twice, then elo.add_game("a", "c", _)
TestAddGame(is_draw) ==
  /\ test.pc \in 4..6
  /\ LET g == TestGames[IF test.pc = 6 THEN 2 ELSE 1]
     IN  players' = AddGameStore(players, g[1], g[2], is_draw)
  /\ test' = [test EXCEPT !.pc = @ + 1, !.draws = Append(@, is_draw)]
  /\ TestFrame

\* elo["b"].rating = _; elo["d"].rating = _
TestForceRating(rating) ==
  /\ test.pc \in 7..8
  /\ players' = IndexMutRating(players,
                   IF test.pc = 7 THEN NameB ELSE NameD, rating)
  /\ test' = [test EXCEPT !.pc = @ + 1, !.forced = Append(@, rating)]
  /\ TestFrame

\* elo["d"].number_of_games = _
TestForceGames(number_of_games) ==
  /\ test.pc = 9
  /\ players' = IndexMutGames(players, NameD, number_of_games)
  /\ test' = [test EXCEPT !.pc = @ + 1,
                          !.forced = Append(@, number_of_games)]
  /\ TestFrame

\* elo.into_iter().collect::<Vec<_>>()
TestCollect ==
  /\ test.pc = 10
  /\ \E v \in IterOrders(players) : test' = [test EXCEPT !.pc = 11, !.vec = v]
  /\ players' = players
  /\ TestFrame

\* players.sort()
TestSort ==
  /\ test.pc = 11
  /\ test' = [test EXCEPT !.pc = 12, !.vec = Sort(@)]
  /\ players' = players
  /\ TestFrame

----------------------------------------------------------------------------
(* The two storage backends, called directly *)

StorePlayers ==
  {Player(n, StartingElo, 0) : n \in Names}
    \cup {Player(n, ForcedRating, ForcedGames) : n \in Names}

StoreFrame ==
  /\ nops < limit
  /\ nops' = nops + 1
  /\ UNCHANGED <<played, limit, cmp, test, procs, lock>>

\* <HashMap as EloStorage>::add_player
HashMapAddPlayer(player) ==
  /\ StoreFrame
  /\ players' = StoreAddPlayer(players, player)
  /\ last' = StoreCall("store.add_player", player, players)
  /\ mem' = mem

\* <HashMap as EloStorage>::update_player
HashMapUpdatePlayer(player) ==
  /\ StoreFrame
  /\ players' = StoreUpdatePlayer(players, player)
  /\ last' = StoreCall("store.update_player", player, players)
  /\ mem' = mem

MemAddPlayer(player) ==
  /\ StoreFrame
  /\ mem' = MemInsert(mem, player)
  /\ last' = StoreCall("mem.add_player", player, mem)
  /\ players' = players

MemUpdatePlayer(player) ==
  /\ StoreFrame
  /\ mem' = MemInsert(mem, player)
  /\ last' = StoreCall("mem.update_player", player, mem)
  /\ players' = players

----------------------------------------------------------------------------
(* Elo::new(players): the engine is built over a store the caller filled  *)
(* through EloStorage::add_player with records made by Player::new.        *)

SeedRatings == {0, LowRating, ForcedRating, StartingElo}

\* the store after add_player(Player::new(n, rating[n], 0)) for each n of S
SeedStore(S, rating) ==
  LET RECURSIVE Fill(_, _)
      Fill(store, rest) ==
        IF rest = {} THEN store
        ELSE LET n == CHOOSE m \in rest : TRUE
             IN  Fill(StoreAddPlayer(store, Player(n, rating[n], 0)),
                      rest \ {n})
  IN  Fill({}, S)

SeedStores ==
  {SeedStore(S, rating) : S \in SUBSET Names, rating \in [Names -> SeedRatings]}

Init ==
  /\ players \in SeedStores
  /\ last = NoCall
  /\ played = [n \in Names |-> 0]
  /\ nops = 0
  /\ limit = MaxOps
  /\ mem = {}
  /\ cmp = NoCmp
  /\ test = NoTest
  /\ procs = NoProcs
  /\ lock = Unlocked

Next ==
  \/ \E player1 \in Names, player2 \in Names, is_draw \in BOOLEAN :
        AddGame(player1, player2, is_draw)
  \/ \E name \in Names : AddPlayer(name)
  \/ \E name \in Names : TryAddCall(name)

Spec == Init /\ [][Next]_vars

(* The engine over HashMap::new(), driven by add_game alone *)

InitGames ==
  /\ players = {}
  /\ last = NoCall
  /\ played = [n \in Names |-> 0]
  /\ nops = 0
  /\ limit = MaxGames
  /\ mem = {}
  /\ cmp = NoCmp
  /\ test = NoTest
  /\ procs = NoProcs
  /\ lock = Unlocked

NextGames ==
  \E player1 \in Names, player2 \in Names, is_draw \in BOOLEAN :
     AddGame(player1, player2, is_draw)

SpecGames == InitGames /\ [][NextGames]_vars

(* AsyncElo::new(InMemoryStorage::new()), its tasks calling add_game *)

InitAsync ==
  /\ players = {}
  /\ last = NoCall
  /\ played = [n \in Names |-> 0]
  /\ nops = 0
  /\ limit = MaxCalls
  /\ mem = {}
  /\ cmp = NoCmp
  /\ test = NoTest
  /\ procs = NoProcs
  /\ lock = Unlocked

NextAsync ==
  \/ \E id \in TaskIds, player1 \in Names, player2 \in Names,
         is_draw \in BOOLEAN : StartGame(id, player1, player2, is_draw)
  \/ \E id \in TaskIds : Acquire(id)
  \/ \E id \in TaskIds : Perform(id)

SpecAsync == InitAsync /\ [][NextAsync]_vars

(* The tasks under a fair scheduler: a task that can take the lock, or    *)
(* that holds it, is eventually run.  Two names, so that every pair of    *)
(* calls contends for the same records; decisive games only.              *)

FairNames == {NameA, NameB}

NextAsyncFair ==
  \/ \E id \in TaskIds, player1 \in FairNames, player2 \in FairNames :
        StartGame(id, player1, player2, FALSE)
  \/ \E id \in TaskIds : Acquire(id)
  \/ \E id \in TaskIds : Perform(id)

Fairness ==
  \A id \in TaskIds : WF_vars(Acquire(id)) /\ WF_vars(Perform(id))

SpecAsyncFair == InitAsync /\ [][NextAsyncFair]_vars /\ Fairness

(* Either engine: Elo over a filled HashMap, or AsyncElo over an empty    *)
(* InMemoryStorage with its tasks; the first call decides which one runs. *)

InitEngines == Init \/ InitAsync

NextEngines ==
  \/ (\A id \in TaskIds : procs[id].op = "none") /\ Next
  \/ (players = {} /\ last = NoCall) /\ NextAsync

SpecEngines == InitEngines /\ [][NextEngines]_vars

(* Elo::new(HashMap::new()) and AsyncElo::new(InMemoryStorage::new()),    *)
(* each call made on both and completed before the next                   *)

InitSeq ==
  /\ players = {}
  /\ last = NoCall
  /\ played = [n \in Names |-> 0]
  /\ nops = 0
  /\ limit = MaxSeqCalls
  /\ mem = {}
  /\ cmp = NoCmp
  /\ test = NoTest
  /\ procs = NoProcs
  /\ lock = Unlocked

NextSeq ==
  \/ \E name \in Names : SeqAddPlayer(name)
  \/ \E name \in Names : SeqTryAdd(name)
  \/ \E player1 \in Names, player2 \in Names, is_draw \in BOOLEAN :
        SeqAddGame(player1, player2, is_draw)

SpecSeq == InitSeq /\ [][NextSeq]_vars

(* Player::cmp applied to three players *)

InitCmp ==
  /\ players = {}
  /\ last = NoCall
  /\ played = [n \in Names |-> 0]
  /\ nops = 0
  /\ limit = 0
  /\ mem = {}
  /\ cmp \in {Compared(x, y, z, FALSE, "Equal", "Equal", "Equal", "Equal") :
                x \in CmpPlayers, y \in CmpPlayers, z \in CmpPlayers}
  /\ test = NoTest
  /\ procs = NoProcs
  /\ lock = Unlocked

NextCmp == Compare

SpecCmp == InitCmp /\ [][NextCmp]_vars

(* tests::ordering, its inputs left open *)

InitOrdering ==
  /\ players = {}
  /\ last = NoCall
  /\ played = [n \in Names |-> 0]
  /\ nops = 0
  /\ limit = 0
  /\ mem = {}
  /\ cmp = NoCmp
  /\ test = NoTest
  /\ procs = NoProcs
  /\ lock = Unlocked

NextOrdering ==
  \/ TestAddPlayer
  \/ \E is_draw \in BOOLEAN : TestAddGame(is_draw)
  \/ \E rating \in SeedRatings : TestForceRating(rating)
  \/ \E number_of_games \in 0..MaxGames : TestForceGames(number_of_games)
  \/ TestCollect
  \/ TestSort

SpecOrdering == InitOrdering /\ [][NextOrdering]_vars

(* The storage traits, called on an empty HashMap and InMemoryStorage *)

InitStore ==
  /\ players = {}
  /\ last = NoCall
  /\ played = [n \in Names |-> 0]
  /\ nops = 0
  /\ limit = MaxStoreOps
  /\ mem = {}
  /\ cmp = NoCmp
  /\ test = NoTest
  /\ procs = NoProcs
  /\ lock = Unlocked

NextStore ==
  \/ \E player \in StorePlayers : HashMapAddPlayer(player)
  \/ \E player \in StorePlayers : HashMapUpdatePlayer(player)
  \/ \E player \in StorePlayers : MemAddPlayer(player)
  \/ \E player \in StorePlayers : MemUpdatePlayer(player)

SpecStore == InitStore /\ [][NextStore]_vars

----------------------------------------------------------------------------
(* Properties *)

IsGame(c) == c.op = "add_game"
OkGame(c) == c.op = "add_game" /\ c.res = "Ok"
Abs(x) == IF x < 0 THEN -x ELSE x

\* C1: add_game(x, x, is_draw) returns an error and leaves the store as it
\* was, whether or not x is stored: no player is created, no rating and no
\* number_of_games changes.
C1_SelfPlayRejected ==
  [][(nops' = nops + 1 /\ IsGame(last') /\ last'.p1 = last'.p2)
       => (last'.res = "Err" /\ players' = players /\ played' = played)]_vars

\* a self-play call was made on a name the store does not hold
C1_Witness ==
  /\ IsGame(last) /\ last.p1 = last.p2 /\ last.res = "Err"
  /\ IsNone(Get(players, last.p1))
  /\ players # {}

\* C2: add_game(p1, p2, _) with p1 # p2 registers each absent name with
\* rating 1000 and 0 games before the outcome is applied and never resets a
\* stored name: the records fed to the computation are (name, 1000, 0) for a
\* newly seen name and the stored record for an existing one.
C2_AutoRegistration ==
  [][(nops' = nops + 1 /\ IsGame(last') /\ last'.p1 # last'.p2)
       => LET Fed(n) == IF IsNone(Get(players, n))
                        THEN Player(n, StartingElo, 0)
                        ELSE Unwrap(Get(players, n))
          IN  /\ last'.res = "Ok"
              /\ last'.w = Fed(last'.p1)
              /\ last'.l = Fed(last'.p2)
              /\ last'.new1 = IsNone(Get(players, last'.p1))
              /\ last'.new2 = IsNone(Get(players, last'.p2))
              /\ \A n \in {last'.p1, last'.p2} :
                   /\ Cardinality(Get(players', n)) = 1
                   /\ Unwrap(Get(players', n)).number_of_games
                        = Fed(n).number_of_games + 1]_vars

\* an existing player with a rating other than 1000 met a newly seen name
C2_Witness ==
  /\ OkGame(last) /\ ~last.new1 /\ last.new2
  /\ last.w.rating = LowRating
  /\ last.l = Player(last.p2, StartingElo, 0)

\* C3: from the empty store, after any sequence of add_game calls, every
\* stored player's number_of_games is the number of successful add_game
\* calls that named it, and exactly the names so played are stored; failed
\* self-play calls contribute nothing.
C3_GamesCounted ==
  /\ \A p \in players : p.number_of_games = played[p.name]
  /\ \A n \in Names : (played[n] > 0) <=> ~IsNone(Get(players, n))

\* three calls, one of them a failed self-play, left a player with two games
C3_Witness ==
  /\ nops = 3 /\ last.res = "Err"
  /\ \E p \in players, q \in players :
       p.number_of_games = 2 /\ q.number_of_games = 1

\* C4: from a and b at rating 1000 and 0 games, add_game(a, b, decisive)
\* then add_game(b, a, decisive) ends with a at 999, b at 1001 and two games
\* each.
C4_Dual ==
  [][(/\ OkGame(last) /\ last.p1 = NameA /\ last.p2 = NameB /\ ~last.is_draw
      /\ last.w = Player(NameA, StartingElo, 0)
      /\ last.l = Player(NameB, StartingElo, 0)
      /\ nops' = nops + 1
      /\ IsGame(last') /\ last'.p1 = NameB /\ last'.p2 = NameA
      /\ ~last'.is_draw)
       => /\ Get(players', NameA) = {Player(NameA, 999, 2)}
          /\ Get(players', NameB) = {Player(NameB, 1001, 2)}]_vars

\* the second game of the pair was played: b at 984 beat a at 1016
C4_Witness ==
  /\ OkGame(last) /\ last.p1 = NameB /\ last.p2 = NameA /\ ~last.is_draw
  /\ last.w = Player(NameB, 984, 1)
  /\ last.l = Player(NameA, 1016, 1)
  /\ Player(NameA, 999, 2) \in players
  /\ Player(NameB, 1001, 2) \in players

\* C5: a draw between two distinct players of equal rating R leaves both at
\* R and raises each number_of_games by exactly 1.
C5_EqualDraw ==
  (OkGame(last) /\ last.is_draw /\ last.w.rating = last.l.rating)
    => /\ Get(players, last.p1)
            = {Player(last.p1, last.w.rating, last.w.number_of_games + 1)}
       /\ Get(players, last.p2)
            = {Player(last.p2, last.l.rating, last.l.number_of_games + 1)}

\* two stored players of one rating other than 1000 drew
C5_Witness ==
  /\ OkGame(last) /\ last.is_draw /\ ~last.new1 /\ ~last.new2
  /\ last.w.rating = LowRating /\ last.l.rating = LowRating

\* C6: after a decisive add_game the two stored ratings sum to the sum of
\* the two ratings before it, up to 1.
C6_ZeroSum ==
  (OkGame(last) /\ ~last.is_draw)
    => Abs((Unwrap(Get(players, last.p1)).rating
              + Unwrap(Get(players, last.p2)).rating)
            - (last.w.rating + last.l.rating)) <= 1

\* C7: when the loser's rounded new rating is below zero, the rating stored
\* for the loser is that negative value.
C7_NoFloor ==
  (OkGame(last) /\ last.ln < 0)
    => Unwrap(Get(players, last.p2)).rating = last.ln

\* C8: Player comparison is rating descending, then number_of_games
\* descending, then name ascending; over players with pairwise distinct
\* names it is a strict total order (exactly one of x<y, y<x; antisymmetric;
\* transitive), and cmp returns Equal only for identical records.
LexLess(s, t) ==
  \E i \in 1..(Len(s) + 1) :
    /\ \A j \in 1..(i - 1) : j <= Len(t) /\ s[j] = t[j]
    /\ IF i = Len(s) + 1 THEN Len(t) >= i ELSE (Len(t) >= i /\ s[i] < t[i])

Before(x, y) ==
  \/ x.rating > y.rating
  \/ x.rating = y.rating /\ x.number_of_games > y.number_of_games
  \/ x.rating = y.rating /\ x.number_of_games = y.number_of_games
       /\ LexLess(x.name, y.name)

C8_TotalOrder ==
  cmp.done =>
    /\ (cmp.xy = "Less") <=> Before(cmp.x, cmp.y)
    /\ (cmp.xy = "Greater") <=> Before(cmp.y, cmp.x)
    /\ (cmp.xy = "Equal") <=> (cmp.x = cmp.y)
    /\ (cmp.xy = "Less") <=> (cmp.yx = "Greater")
    /\ (cmp.x.name # cmp.y.name)
         => ((cmp.xy = "Less") # (cmp.yx = "Less"))
    /\ (cmp.xy = "Less" /\ cmp.yz = "Less") => cmp.xz = "Less"

\* three distinct names of one rating: x before y by name alone (a proper
\* prefix), y before z by number_of_games
C8_Witness ==
  /\ cmp.done
  /\ cmp.x.name = NameA /\ cmp.y.name = NameAB /\ cmp.z.name = NameB
  /\ cmp.x.rating = cmp.y.rating /\ cmp.y.rating = cmp.z.rating
  /\ cmp.x.number_of_games = cmp.y.number_of_games
  /\ cmp.y.number_of_games > cmp.z.number_of_games
  /\ cmp.xy = "Less" /\ cmp.yz = "Less" /\ cmp.xz = "Less"

\* C9: after add_player a, b, c, d, add_game(a, b, decisive) twice and
\* add_game(a, c, decisive), then b.rating = 985, d.rating = 985 and
\* d.number_of_games = 2, sorting the stored players yields a, b, d, c,
\* whatever order the map iterates in.
OnScript ==
  /\ test.draws = <<FALSE, FALSE, FALSE>>
  /\ test.forced = <<ForcedRating, ForcedRating, ForcedGames>>

C9_Ordering ==
  (test.pc = 12 /\ OnScript)
    => [i \in 1..Len(test.vec) |-> test.vec[i].name]
         = <<NameA, NameB, NameD, NameC>>

\* the test ran to its end on its own inputs and the Vec is sorted
C9_Witness ==
  /\ test.pc = 12 /\ OnScript
  /\ test.vec = << Player(NameA, 1046, 3), Player(NameB, ForcedRating, 2),
                   Player(NameD, ForcedRating, ForcedGames),
                   Player(NameC, 985, 1) >>

\* C10: add_player(p) and update_player(p), of the HashMap and of
\* InMemoryStorage, are upserts: afterwards get(p.name) returns exactly p,
\* one record is held under that name, and every record under another name
\* is unchanged.
Upserted(before, after, p) ==
  /\ Get(after, p.name) = {p}
  /\ Cardinality({q \in after : q.name = p.name}) = 1
  /\ \A n \in Names : n # p.name => Get(after, n) = Get(before, n)

C10_Upsert ==
  [][(nops' = nops + 1)
       => /\ last'.op \in {"store.add_player", "store.update_player"}
               => Upserted(players, players', last'.w) /\ mem' = mem
          /\ last'.op \in {"mem.add_player", "mem.update_player"}
               => Upserted(mem, mem', last'.w) /\ players' = players]_vars

\* update_player was called on InMemoryStorage for a name it did not hold,
\* beside a record under another name
C10_Witness ==
  /\ last.op = "mem.update_player" /\ last.new1
  /\ last.w \in mem
  /\ \E q \in mem : q.name # last.w.name

\* C11: in the concurrent engine, with add_game the only mutating call,
\* the number_of_games stored for a player never decreases from one store
\* state to the next.
C11_GamesMonotone ==
  [][\A n \in Names :
       (~IsNone(MemGet(mem, n)) /\ ~IsNone(MemGet(mem', n)))
         => Unwrap(MemGet(mem', n)).number_of_games
              >= Unwrap(MemGet(mem, n)).number_of_games]_vars

\* C12: add_game of the concurrent engine is not atomic: two concurrent
\* calls sharing a player can both return Ok while the shared player's
\* record counts only one of them.  Once every call has returned, each
\* stored player's number_of_games lies between 1 and the number of
\* completed matches it took part in, and the lower end is reached with two
\* matches completed.
Quiescent == \A id \in DOMAIN procs : procs[id].pc = "idle" /\ ~procs[id].held

C12_LostUpdate ==
  Quiescent
    => \A p \in mem : 1 <= p.number_of_games
                      /\ p.number_of_games <= played[p.name]

\* both calls returned Ok, they share exactly the player a, and a's record
\* shows one game of the two
C12_Witness ==
  /\ Quiescent
  /\ procs["t1"].res = "Ok" /\ procs["t2"].res = "Ok"
  /\ {procs["t1"].p1, procs["t1"].p2} \cap {procs["t2"].p1, procs["t2"].p2}
       = {NameA}
  /\ played[NameA] = 2
  /\ Unwrap(MemGet(mem, NameA)).number_of_games = 1

\* C13: for add_game(p1, p2, _) with p1 # p2, in the synchronous engine and
\* under every interleaving in the concurrent engine, both players are
\* present when they are looked up after auto-registration (no unwrap or
\* index panics) and the call returns Ok.
C13_PlayersPresent ==
  /\ last.res # "Panic"
  /\ (IsGame(last) /\ last.p1 # last.p2) => last.res = "Ok"
  /\ \A id \in TaskIds :
       LET t == procs[id]
       IN  /\ t.pc # "panic"
           /\ t.res # "Panic"
           /\ (t.held /\ t.pc = "get1") => ~IsNone(MemGet(mem, t.p1))
           /\ (t.held /\ t.pc = "get2") => ~IsNone(MemGet(mem, t.p2))
           /\ (t.op = "add_game" /\ t.pc = "idle" /\ t.p1 # t.p2)
                => t.res = "Ok"

\* task t1 holds the read lock for its lookup of player1 while task t2 is
\* in the middle of an add_game naming the same player
C13_Witness ==
  /\ procs["t1"].held /\ procs["t1"].pc = "get1"
  /\ Running(procs["t2"])
  /\ procs["t1"].p1 \in {procs["t2"].p1, procs["t2"].p2}

\* C14: a successful add_game(p1, p2, _) changes or creates only the
\* records named p1 and p2: every other stored record is identical before
\* and after, no record is removed, and each name keeps one record.  In the
\* concurrent engine every store step of a call changes at most the record
\* of one of that call's two players.
OneRecordEach(store) ==
  \A q \in store : Cardinality(Get(store, q.name)) = 1

C14_Frame ==
  [][/\ \A n \in Names :
          /\ ~IsNone(Get(players, n)) => ~IsNone(Get(players', n))
          /\ ~IsNone(MemGet(mem, n)) => ~IsNone(MemGet(mem', n))
          /\ MemGet(mem', n) # MemGet(mem, n)
               => \E id \in TaskIds :
                    /\ procs'[id] # procs[id]
                    /\ procs[id].op = "add_game"
                    /\ n \in {procs[id].p1, procs[id].p2}
     /\ (IsGame(last') /\ nops' = nops + 1 /\ last'.res = "Ok")
          => \A n \in Names \ {last'.p1, last'.p2} :
               Get(players', n) = Get(players, n)
     /\ OneRecordEach(players') /\ OneRecordEach(mem')]_vars

\* a call has returned Ok and the store holds a record of a third player
C14_Witness ==
  \E id \in TaskIds :
    /\ procs[id].op = "add_game" /\ procs[id].pc = "idle"
    /\ procs[id].res = "Ok"
    /\ \E q \in mem : q.name \notin {procs[id].p1, procs[id].p2}

\* C15: in the concurrent engine the store lock is taken and released
\* inside each single get / add_player / update_player call and is never
\* held between the steps of add_game; so concurrently running add_game
\* calls cannot deadlock, and under fair scheduling every one of them
\* eventually returns.
LockInsideCall ==
  /\ \A id \in TaskIds :
       /\ (lock.writer = id \/ id \in lock.readers) <=> procs[id].held
       /\ procs[id].held => Running(procs[id])
       /\ lock.writer = id => ~IsRead(procs[id].pc)
       /\ id \in lock.readers => IsRead(procs[id].pc)
  /\ lock.writer # "none" => lock.readers = {}

C15_LockScoped ==
  /\ []LockInsideCall
  /\ \A id \in TaskIds : Running(procs[id]) ~> (procs[id].pc = "idle")

\* task t1 holds the write lock inside a store call while task t2, between
\* two steps of its add_game, waits for the lock
C15_Witness ==
  /\ lock.writer = "t1" /\ procs["t1"].held
  /\ Running(procs["t2"]) /\ ~procs["t2"].held
  /\ procs["t2"].pc \in {"get1", "get2", "upd1", "upd2"}

\* C16: a draw is symmetric in its arguments: for every store and distinct
\* names p1, p2, add_game(p1, p2, draw) and add_game(p2, p1, draw) produce
\* the same resulting store.
C16_DrawSymmetric ==
  [][(IsGame(last') /\ nops' = nops + 1 /\ last'.is_draw
        /\ last'.p1 # last'.p2)
       => /\ last'.res = "Ok"
          /\ players' = AddGameStore(players, last'.p2, last'.p1, TRUE)]_vars

\* a draw has been played between players whose ratings differed, and both
\* ratings moved
C16_Witness ==
  /\ OkGame(last) /\ last.is_draw
  /\ last.w.rating > last.l.rating + K
  /\ last.wn # last.w.rating /\ last.ln # last.l.rating

\* C17: run sequentially from an empty store, AsyncElo over InMemoryStorage
\* (get a copy, modify, update_player) and Elo over HashMap (get_mut in
\* place) are equivalent: every sequence of add_player, try_add and add_game
\* calls gives the same results and the same mapping from names to
\* (rating, number_of_games).
C17_SeqEquivalent ==
  /\ mem = players
  /\ nops > 0 => /\ procs["t1"].op = last.op
                 /\ procs["t1"].res = last.res

\* the last of the calls is a game between a player whose record shows an
\* earlier game and a player whose record showed none
C17_Witness ==
  /\ nops = MaxSeqCalls
  /\ OkGame(last)
  /\ \E p \in mem, q \in mem :
       /\ {p.name, q.name} = {last.p1, last.p2}
       /\ p.number_of_games = 2 /\ q.number_of_games = 1
       /\ p.rating # StartingElo

\* C18: in the concurrent engine auto-registration never overwrites a
\* record that exists at the moment of the write with updated rating or
\* games: the add_player of a try_add is made only on a store where the
\* name is absent or still holds the record of a fresh registration.
Untouched(store, name) ==
  \/ IsNone(MemGet(store, name))
  \/ Unwrap(MemGet(store, name)) = Player(name, StartingElo, 0)

C18_NoOverwrite ==
  [][\A id \in DOMAIN procs :
       (procs[id].held /\ procs'[id] # procs[id])
         => /\ procs[id].pc = "t1add" => Untouched(mem, procs[id].p1)
            /\ procs[id].pc = "t2add" => Untouched(mem, procs[id].p2)]_vars

====
